---- MODULE Spec2Model ----
(***************************************************************************)
(* Model of src/text/attrs.rs of bww/resolver: the Attributes algebra      *)
(* (merged), the Span ordering, the span merge loop (merge) and the        *)
(* offset-aware render pass (render_with_options).                         *)
(*                                                                         *)
(* Three specifications share one set of variables:                        *)
(*   Spec        merge(a, b), one action per step of the function          *)
(*   SpecRender  render_with_options(text, boff, spans, mode)              *)
(*   SpecAttrs   Attributes::merged on a pair of attribute records         *)
(***************************************************************************)
EXTENDS Integers, Sequences, FiniteSets, TLC

(***************************************************************************)
(* Bounds of the model.                                                    *)
(***************************************************************************)
\* byte offsets of span ranges are drawn from 0..MaxPos
MaxPos == 2
\* merge: Len(a) + Len(b) <= MaxSpans
MaxSpans == 3
\* render: text.len() <= MaxLen, and at most MaxRenderSpans spans
MaxLen == 3
MaxRenderSpans == 2

(***************************************************************************)
(* Attributes (attrs.rs:14-20).  Option<Color> is a colour name or NoColor. *)
(***************************************************************************)
NoColor == "None"

Colors == {"Red", "Blue"}

OptColor == Colors \cup {NoColor}

Attributes == [bold : BOOLEAN, invert : BOOLEAN, color : OptColor, background : OptColor]

Attr(bo, iv, co, bg) == [bold |-> bo, invert |-> iv, color |-> co, background |-> bg]

\* util::coalesce(a, b): the first operand when it is set, else the second
Coalesce(x, y) == IF x # NoColor THEN x ELSE y

\* Attributes::merged with the colour operands swapped (last one wins)
MergedLastWins(self, with) ==
  [bold       |-> self.bold \/ with.bold,
   invert     |-> self.invert \/ with.invert,
   color      |-> Coalesce(with.color, self.color),
   background |-> Coalesce(with.background, self.background)]

\* Attributes::merged
Merged(self, with) ==
  [bold       |-> self.bold \/ with.bold,
   invert     |-> self.invert \/ with.invert,
   color      |-> Coalesce(self.color, with.color),
   background |-> Coalesce(self.background, with.background)]

(***************************************************************************)
(* Span (attrs.rs:91-119): a half-open range start..end and its attrs.     *)
(***************************************************************************)
Span(s, e, at) == [start |-> s, end |-> e, attrs |-> at]

\* Ord for Span: cmp(p, q) = Less; start first, a tie broken by end
SpanLess(p, q) ==
  IF p.start = q.start THEN p.end < q.end ELSE p.start < q.start

\* an unstable insertion: x goes in front of the elements equal to it
RECURSIVE InsertBeforeEqual(_, _)
InsertBeforeEqual(x, s) ==
  IF s = <<>> THEN <<x>>
  ELSE IF ~SpanLess(Head(s), x) THEN <<x>> \o s
  ELSE <<Head(s)>> \o InsertBeforeEqual(x, Tail(s))

\* Vec::sort is stable: x goes behind every element that is not greater
RECURSIVE InsertSorted(_, _)
InsertSorted(x, s) ==
  IF s = <<>> THEN <<x>>
  ELSE IF SpanLess(x, Head(s)) THEN <<x>> \o s
  ELSE <<Head(s)>> \o InsertSorted(x, Tail(s))

RECURSIVE SortFrom(_, _)
SortFrom(s, acc) ==
  IF s = <<>> THEN acc ELSE SortFrom(Tail(s), InsertSorted(Head(s), acc))

\* dup.sort()
SortSpans(s) == SortFrom(s, <<>>)

(***************************************************************************)
(* merge (attrs.rs:174-233)                                                *)
(***************************************************************************)
\* the overlap test with touching spans taken as overlapping
OverlapsTouching(p, q) == p.end >= q.start

\* dup[0].range.end > dup[1].range.start
Overlaps(p, q) == p.end > q.start

\* the overlap resolution with the later-ending span's remainder dropped
ResolveDropTail(d, r) ==
  LET d0 == d[1]
      d1 == d[2]
      split == d0.start < d1.start
      r1 == IF split THEN Append(r, Span(d0.start, d1.start, d0.attrs)) ELSE r
      e0 == IF split THEN Span(d1.start, d0.end, d0.attrs) ELSE d0
      end == IF e0.end < d1.end THEN e0.end ELSE d1.end
      n0 == Span(d1.start, end, Merged(e0.attrs, d1.attrs))
  IN  [dup |-> <<n0>> \o SubSeq(d, 3, Len(d)), res |-> r1]

\* lines 190-218: the first two elements overlap
Resolve(d, r) ==
  LET d0 == d[1]
      d1 == d[2]
      split == d0.start < d1.start
      \* 191-200: emit the prefix and shrink dup[0]
      r1 == IF split THEN Append(r, Span(d0.start, d1.start, d0.attrs)) ELSE r
      e0 == IF split THEN Span(d1.start, d0.end, d0.attrs) ELSE d0
      \* 201-205
      shorter == e0.end < d1.end
      end == IF shorter THEN e0.end ELSE d1.end
      nxt == IF shorter THEN d1.end ELSE e0.end
      attrs == IF shorter THEN d1.attrs ELSE e0.attrs
      \* 206-209
      n0 == Span(d1.start, end, Merged(e0.attrs, d1.attrs))
      rest == SubSeq(d, 3, Len(d))
      \* 210-217
      d2 == IF nxt = end THEN <<n0>> \o rest
            ELSE <<n0, Span(end, nxt, attrs)>> \o rest
  IN  [dup |-> d2, res |-> r1]

\* the inner while loop never popping
DrainNever(d, r) == [dup |-> d, res |-> r]

\* lines 220-227: pop and emit dup[0] while it ends before dup[1] starts
RECURSIVE Drain(_, _)
Drain(d, r) ==
  IF Len(d) > 1 /\ d[1].end <= d[2].start
  THEN Drain(Tail(d), Append(r, d[1]))
  ELSE [dup |-> d, res |-> r]

\* lines 189-228: one pass of the outer loop on two or more elements
Pass(d, r) ==
  LET m == IF Overlaps(d[1], d[2]) THEN Resolve(d, r) ELSE [dup |-> d, res |-> r]
  IN  Drain(m.dup, m.res)

(***************************************************************************)
(* Rendering (attrs.rs:32-88, 235-273).  A string is a sequence of tokens, *)
(* each a pair of strings: a byte of the text <<"ch", c>>, a markup tag or *)
(* a terminal style code.                                                  *)
(***************************************************************************)
Modes == {"Terminal", "Markup"}

\* the text of length n: its bytes are pairwise different
TextOf(n) == [i \in 1..n |-> <<"ch", ToString(i - 1)>>]

\* &text[from..to], from and to zero-based byte offsets
Slice(t, from, to) == SubSeq(t, from + 1, to)

Min(x, y) == IF x < y THEN x ELSE y

Max(x, y) == IF x > y THEN x ELSE y

\* lines 60-88: nested tags, <b> outermost, closed in reverse order
RenderHtml(at, t) ==
     (IF at.bold THEN << <<"<b>", "">> >> ELSE <<>>)
  \o (IF at.invert THEN << <<"<invert>", "">> >> ELSE <<>>)
  \o (IF at.background # NoColor THEN << <<"<bg:>", at.background>> >> ELSE <<>>)
  \o (IF at.color # NoColor THEN << <<"<fg:>", at.color>> >> ELSE <<>>)
  \o t
  \o (IF at.color # NoColor THEN << <<"</fg:>", at.color>> >> ELSE <<>>)
  \o (IF at.background # NoColor THEN << <<"</bg:>", at.background>> >> ELSE <<>>)
  \o (IF at.invert THEN << <<"</invert>", "">> >> ELSE <<>>)
  \o (IF at.bold THEN << <<"</b>", "">> >> ELSE <<>>)

\* lines 43-58: the styles are applied to the text in the order bold, reverse,
\* foreground, background; the styled content prints one code per style set,
\* the text, and a reset when any style was set
RenderTerm(at, t) ==
  LET styled == at.bold \/ at.invert \/ at.color # NoColor \/ at.background # NoColor
  IN     (IF at.bold THEN << <<"bold", "">> >> ELSE <<>>)
      \o (IF at.invert THEN << <<"reverse", "">> >> ELSE <<>>)
      \o (IF at.color # NoColor THEN << <<"with", at.color>> >> ELSE <<>>)
      \o (IF at.background # NoColor THEN << <<"on", at.background>> >> ELSE <<>>)
      \o t
      \o (IF styled THEN << <<"reset", "">> >> ELSE <<>>)

\* lines 36-41
RenderWithMode(at, t, m) ==
  IF m = "Terminal" THEN RenderTerm(at, t) ELSE RenderHtml(at, t)

\* lines 254-267: the body of the for loop on one span.  st holds x, the
\* output attrd, and unstyled, the number of bytes pushed unstyled so far.
RenderSpan(st, span, t, off, m) ==
  IF span.end < off THEN st
  ELSE
    LET len == Len(t)
        start == Min(Max(off, span.start) - off, len)
        gap == IF start > st.x THEN Slice(t, st.x, start) ELSE <<>>
        end == Min(span.end - off, len)
        run == IF end > start
               THEN RenderWithMode(span.attrs, Slice(t, start, end), m)
               ELSE <<>>
    IN  [x |-> end,
         attrd |-> st.attrd \o gap \o run,
         unstyled |-> st.unstyled + Len(gap)]

\* lines 268-270: the text behind the last span
RenderRest(st, t) ==
  IF st.x < Len(t)
  THEN [x |-> st.x,
        attrd |-> st.attrd \o Slice(t, st.x, Len(t)),
        unstyled |-> st.unstyled + (Len(t) - st.x)]
  ELSE st

RECURSIVE RenderLoop(_, _, _, _, _)
RenderLoop(st, d, t, off, m) ==
  IF d = <<>> THEN st
  ELSE RenderLoop(RenderSpan(st, Head(d), t, off, m), Tail(d), t, off, m)

\* lines 247-273: render_with_options as a function of its arguments
RenderWithOptions(t, off, s, m) ==
  RenderRest(
    RenderLoop([x |-> 0, attrd |-> <<>>, unstyled |-> 0], SortSpans(s), t, off, m),
    t).attrd

VARIABLES
  a, b, dup, res, pc,                       \* merge
  text, boff, spans, mode, rdup, rst, rpc,  \* render_with_options
  lhs, rhs, ab, ba                          \* Attributes::merged

mergeVars == <<a, b, dup, res, pc>>

renderVars == <<text, boff, spans, mode, rdup, rst, rpc>>

attrVars == <<lhs, rhs, ab, ba>>

vars == <<a, b, dup, res, pc, text, boff, spans, mode, rdup, rst, rpc, lhs, rhs, ab, ba>>

\* the attribute records the spans of the merge and render inputs carry
SpanAttrs ==
  { Attr(TRUE, FALSE, "Red", NoColor),
    Attr(FALSE, TRUE, "Blue", "Red") }

Ranges == { r \in (0..MaxPos) \X (0..MaxPos) : r[1] <= r[2] }

Spans == { Span(r[1], r[2], at) : r \in Ranges, at \in SpanAttrs }

RECURSIVE SeqsUpTo(_, _)
SeqsUpTo(S, n) ==
  IF n = 0 THEN { <<>> }
  ELSE LET shorter == SeqsUpTo(S, n - 1)
       IN  shorter \cup { Append(s, x) : s \in { t \in shorter : Len(t) = n - 1 }, x \in S }

NoAttrs == Attr(FALSE, FALSE, NoColor, NoColor)

MergeIdle ==
  a = <<>> /\ b = <<>> /\ dup = <<>> /\ res = <<>> /\ pc = "idle"

RenderIdle ==
  /\ text = <<>> /\ boff = 0 /\ spans = <<>> /\ mode = "Terminal" /\ rdup = <<>>
  /\ rst = [x |-> 0, attrd |-> <<>>, unstyled |-> 0] /\ rpc = "idle"

AttrsIdle ==
  lhs = NoAttrs /\ rhs = NoAttrs /\ ab = <<>> /\ ba = <<>>

(***************************************************************************)
(* Spec: merge(a, b)                                                       *)
(***************************************************************************)
Init ==
  /\ a \in SeqsUpTo(Spans, MaxSpans)
  /\ b \in SeqsUpTo(Spans, MaxSpans - Len(a))
  /\ dup = <<>>
  /\ res = <<>>
  /\ pc = "start"
  /\ RenderIdle
  /\ AttrsIdle

\* lines 175-180
MergeBegin ==
  /\ pc = "start"
  /\ dup' = SortSpans(a \o b)
  /\ res' = <<>>
  /\ pc' = "loop"
  /\ UNCHANGED <<a, b, renderVars, attrVars>>

\* line 184: 0 => break
LoopEmpty ==
  /\ pc = "loop"
  /\ Len(dup) = 0
  /\ pc' = "done"
  /\ UNCHANGED <<a, b, dup, res, renderVars, attrVars>>

\* lines 185-188: 1 => push and break
LoopSingle ==
  /\ pc = "loop"
  /\ Len(dup) = 1
  /\ res' = Append(res, dup[1])
  /\ pc' = "done"
  /\ UNCHANGED <<a, b, dup, renderVars, attrVars>>

\* lines 189-228
LoopMany ==
  /\ pc = "loop"
  /\ Len(dup) > 1
  /\ LET p == Pass(dup, res)
     IN  dup' = p.dup /\ res' = p.res
  /\ UNCHANGED <<a, b, pc, renderVars, attrVars>>

Next == MergeBegin \/ LoopEmpty \/ LoopSingle \/ LoopMany

Spec == Init /\ [][Next]_vars

(***************************************************************************)
(* SpecRender: render_with_options(text, boff, spans, mode)                *)
(***************************************************************************)
InitRender ==
  /\ text \in { TextOf(n) : n \in 0..MaxLen }
  /\ boff \in 0..MaxPos
  /\ spans \in SeqsUpTo(Spans, MaxRenderSpans)
  /\ mode \in Modes
  /\ rdup = <<>>
  /\ rst = [x |-> 0, attrd |-> <<>>, unstyled |-> 0]
  /\ rpc = "start"
  /\ MergeIdle
  /\ AttrsIdle

\* lines 248-253
RenderBegin ==
  /\ rpc = "start"
  /\ rdup' = SortSpans(spans)
  /\ rst' = [x |-> 0, attrd |-> <<>>, unstyled |-> 0]
  /\ rpc' = "for"
  /\ UNCHANGED <<text, boff, spans, mode, mergeVars, attrVars>>

\* lines 254-267: one iteration of the for loop
RenderNext ==
  /\ rpc = "for"
  /\ rdup # <<>>
  /\ rst' = RenderSpan(rst, Head(rdup), text, boff, mode)
  /\ rdup' = Tail(rdup)
  /\ UNCHANGED <<text, boff, spans, mode, rpc, mergeVars, attrVars>>

\* lines 268-272
RenderEnd ==
  /\ rpc = "for"
  /\ rdup = <<>>
  /\ rst' = RenderRest(rst, text)
  /\ rpc' = "done"
  /\ UNCHANGED <<text, boff, spans, mode, rdup, mergeVars, attrVars>>

NextRender == RenderBegin \/ RenderNext \/ RenderEnd

SpecRender == InitRender /\ [][NextRender]_vars

(***************************************************************************)
(* SpecAttrs: A.merged(B) and B.merged(A)                                  *)
(***************************************************************************)
InitAttrs ==
  /\ lhs \in Attributes
  /\ rhs \in Attributes
  /\ ab = <<>>
  /\ ba = <<>>
  /\ MergeIdle
  /\ RenderIdle

\* lhs.merged(&rhs)
MergeAB ==
  /\ ab = <<>>
  /\ ab' = <<Merged(lhs, rhs)>>
  /\ UNCHANGED <<lhs, rhs, ba, mergeVars, renderVars>>

\* rhs.merged(&lhs)
MergeBA ==
  /\ ba = <<>>
  /\ ba' = <<Merged(rhs, lhs)>>
  /\ UNCHANGED <<lhs, rhs, ab, mergeVars, renderVars>>

NextAttrs == MergeAB \/ MergeBA

SpecAttrs == InitAttrs /\ [][NextAttrs]_vars

(***************************************************************************)
(* Properties of merge, checked under Spec.                                *)
(***************************************************************************)
\* the concatenation a then b, the order the working list is filled in
Cat == a \o b

\* byte position p lies in the range of span s
Covers(s, p) == s.start <= p /\ p < s.end

Positions == 0..(MaxPos - 1)

\* the byte positions covered by some span of the list
Covered(s) == { p \in Positions : \E i \in DOMAIN s : Covers(s[i], p) }

\* the input spans covering p, as indices into Cat
CoveringAt(p) == { i \in DOMAIN Cat : Covers(Cat[i], p) }

\* the values field f may take at p: none when no covering span sets it, else
\* the value of a covering span that sets it and starts earliest among those
FirstSet(p, f) ==
  LET setters == { i \in CoveringAt(p) : Cat[i].attrs[f] # NoColor }
      firsts == { i \in setters : \A j \in setters : Cat[i].start <= Cat[j].start }
  IN  IF setters = {} THEN {NoColor} ELSE { Cat[i].attrs[f] : i \in firsts }

\* C1: the list merge(a, b) returns is sorted and disjoint: each output span
\* ends at or before the start of the next one.
C1_SortedDisjoint ==
  pc = "done" => \A i \in 1..(Len(res) - 1) : res[i].end <= res[i + 1].start

\* C2: every output span carries, at each byte it covers, the attributes of
\* exactly the input spans covering that byte: bold and invert are the OR
\* over them, color and background those of the earliest-starting covering
\* span that sets them.
C2_AttrsOfCoveringSpans ==
  pc = "done" =>
    \A k \in DOMAIN res : \A p \in Positions :
      Covers(res[k], p) =>
        /\ CoveringAt(p) # {}
        /\ res[k].attrs.bold = (\E i \in CoveringAt(p) : Cat[i].attrs.bold)
        /\ res[k].attrs.invert = (\E i \in CoveringAt(p) : Cat[i].attrs.invert)
        /\ res[k].attrs.color \in FirstSet(p, "color")
        /\ res[k].attrs.background \in FirstSet(p, "background")

\* C3: the byte positions covered by the output of merge(a, b) are exactly
\* those covered by the spans of a and b together.
C3_CoverageKept ==
  pc = "done" => Covered(res) = Covered(Cat)

\* a finished merge of three spans in which one span starts inside another
\* (a prefix is split off) and one of two spans starting together ends first
\* (a remainder is kept)
C3_Witness ==
  /\ pc = "done"
  /\ Len(Cat) = 3
  /\ \E i, j \in DOMAIN Cat :
       Cat[i].start < Cat[j].start /\ Cat[j].start < Cat[i].end
  /\ \E i, j \in DOMAIN Cat :
       Cat[i].start = Cat[j].start /\ Cat[i].start < Cat[i].end /\ Cat[i].end < Cat[j].end
  /\ Len(res) >= 2
  /\ Covered(res) = Positions

\* where exactly the input spans i and j cover a byte, every output span
\* over that byte has i's color and background when both set one
Prevails(i, j) ==
  \A p \in Positions :
    CoveringAt(p) = {i, j} =>
      \A k \in DOMAIN res :
        Covers(res[k], p) =>
          /\ (Cat[i].attrs.color # NoColor /\ Cat[j].attrs.color # NoColor
                => res[k].attrs.color = Cat[i].attrs.color)
          /\ (Cat[i].attrs.background # NoColor /\ Cat[j].attrs.background # NoColor
                => res[k].attrs.background = Cat[i].attrs.background)

SortedDisjoint(s) == \A i \in 1..(Len(s) - 1) : s[i].end <= s[i + 1].start

\* C8: for a list S already sorted and pairwise disjoint (touching allowed),
\* merge(S, []) returns exactly S.
C8_DisjointUnchanged ==
  (pc = "done" /\ b = <<>> /\ SortedDisjoint(a)) => res = a

\* a finished merge(S, []) of a disjoint S holding two non-empty spans that
\* touch at a boundary
C8_Witness ==
  /\ pc = "done"
  /\ b = <<>>
  /\ SortedDisjoint(a)
  /\ Len(a) >= 2
  /\ a[1].start < a[1].end
  /\ a[1].end = a[2].start
  /\ a[2].start < a[2].end
  /\ Len(res) = Len(a)

\* C10: the merge loop terminates: a pass of the outer loop that does not
\* leave the loop strictly shortens the working list, and the loop is left
\* only with the working list processed down to its last element.
C10_LoopTerminates ==
  /\ [][(pc = "loop" /\ pc' = "loop") => Len(dup') < Len(dup)]_vars
  /\ [](pc = "done" => Len(dup) <= 1)

\* a finished merge of a chain of three spans that all overlap one another
C10_Witness ==
  /\ pc = "done"
  /\ Len(Cat) = 3
  /\ \E p \in Positions : CoveringAt(p) = {1, 2, 3}
  /\ Len(res) >= 1

(***************************************************************************)
(* Properties of the render pass, checked under SpecRender.                *)
(***************************************************************************)
RemoveAt(s, i) == SubSeq(s, 1, i - 1) \o SubSeq(s, i + 1, Len(s))

\* the text bytes (window-relative) covered by at least one span
StyledBytes ==
  { p \in 0..(Len(text) - 1) :
      \E i \in DOMAIN spans : spans[i].start <= p + boff /\ p + boff < spans[i].end }

\* every span range lies within the text shown
SpansInText ==
  \A i \in DOMAIN spans : boff <= spans[i].start /\ spans[i].end <= boff + Len(text)

\* C5: for spans lying within the text (overlapping or not), the unstyled
\* slices the pass emits have total length text.len() minus the number of
\* bytes covered by at least one span.
C5_UnstyledLength ==
  (rpc = "done" /\ SpansInText) =>
    rst.unstyled = Len(text) - Cardinality(StyledBytes)

\* C6: a span lying entirely before the window (end <= boff) contributes
\* nothing: the output is that of the collection without the span.
C6_SpanBeforeWindowIgnored ==
  rpc = "done" =>
    \A i \in DOMAIN spans :
      spans[i].end <= boff =>
        rst.attrd = RenderWithOptions(text, boff, RemoveAt(spans, i), mode)

\* the rearrangements of a list
Permuted(s) ==
  { [i \in DOMAIN s |-> s[f[i]]] :
      f \in { g \in [DOMAIN s -> DOMAIN s] : \A i, j \in DOMAIN s : g[i] = g[j] => i = j } }

\* C7: render (offset 0) of any rearrangement of the spans gives the same
\* output.
C7_OrderIndependent ==
  (rpc = "done" /\ boff = 0) =>
    \A q \in Permuted(spans) : RenderWithOptions(text, 0, q, mode) = rst.attrd

(***************************************************************************)
(* Properties of Attributes::merged, checked under SpecAttrs.              *)
(***************************************************************************)
\* what the claim says x.merged(y) is
MergedAsClaimed(m, x, y) ==
  /\ m.bold = (x.bold \/ y.bold)
  /\ m.invert = (x.invert \/ y.invert)
  /\ m.color = (IF x.color # NoColor THEN x.color ELSE y.color)
  /\ m.background = (IF x.background # NoColor THEN x.background ELSE y.background)

\* C9: A.merged(B) ORs bold and invert, so both are the same in B.merged(A),
\* and keeps A's color and background when A sets them, B's otherwise.
C9_MergedAlgebra ==
  /\ ab # <<>> => MergedAsClaimed(ab[1], lhs, rhs)
  /\ ba # <<>> => MergedAsClaimed(ba[1], rhs, lhs)
  /\ (ab # <<>> /\ ba # <<>>) =>
       (ab[1].bold = ba[1].bold /\ ab[1].invert = ba[1].invert)

\* both merges done on operands that set different colors and different
\* flags: the colors of the two results differ
C9_Witness ==
  /\ ab # <<>>
  /\ ba # <<>>
  /\ lhs.color # NoColor
  /\ rhs.color # NoColor
  /\ lhs.color # rhs.color
  /\ lhs.bold # rhs.bold
  /\ ab[1].color = lhs.color
  /\ ba[1].color = rhs.color

====
